---- MODULE Spec2Model ----
(***************************************************************************)
(* Model of the akawo voice-command backend (AkawoService and              *)
(* AkawoController).  One command is one request-scoped pipeline           *)
(* (processAudioCommand); every await of the code is one step of the       *)
(* model.  The ledger is the Transaction collection, files is the          *)
(* temporary directory.                                                    *)
(***************************************************************************)
EXTENDS Integers, Sequences, FiniteSets, TLC

VARIABLES ledger, nextId, now, files, req, cmds, ops, hfApiKey, resp, probe

vars == <<ledger, nextId, now, files, req, cmds, ops, hfApiKey, resp, probe>>

(***************************************************************************)
(* Bounds                                                                  *)
(***************************************************************************)
MaxCmds == 1        \* voice commands submitted in one behaviour
MaxOps == 1         \* ledger operations of the controller in one behaviour
MaxTx == 2          \* entries in one extractor answer
MaxTime == 1        \* last value of the millisecond clock

(***************************************************************************)
(* Input domains                                                           *)
(***************************************************************************)
Procs == {"p1"}
Users == {"u1", "u2"}
ReqLangs == {"ig", "fr"}
Null == "null"
Undefined == "undefined"
NaN == [nan |-> TRUE, v |-> 0]

\* a transcript is null or a string, kept as its sequence of words
Txt(ws) == [isNull |-> FALSE, words |-> ws]
NullTxt == [isNull |-> TRUE, words |-> <<>>]
Falsy(t) == t.isNull \/ t.words = <<>>

\* transcripts the speech-to-text backend may answer with
Texts == {Txt(<<"ada", "paid", "2000">>), Txt(<<"total", "income">>)}

\* what the classification backend may answer with
Intents ==
  {"log_transaction", "query_debtors", "query_total_income",
   "query_total_debt", "ask_capabilities"}
LLMLabels == Intents \cup {"weather"}

\* JSON amounts: a number, a string of digits, or any other string
Num(n) == [t |-> "num", v |-> n]
NotANumber == [t |-> "text", v |-> 0]

\* entries an extractor answer may contain (owner: an 'owner' key of the entry)
Candidates ==
  { [customer |-> "Ada", details |-> "rice", amount |-> Num(2000),
     type |-> "income", owner |-> Undefined],
    [customer |-> "Ada", details |-> "rice", amount |-> Num(1000),
     type |-> "debt", owner |-> "u2"],
    [customer |-> "Obi", details |-> "garri", amount |-> Num(0 - 5),
     type |-> "debt", owner |-> "u1"],
    [customer |-> "Obi", details |-> "garri", amount |-> NotANumber,
     type |-> "income", owner |-> Undefined],
    [customer |-> "Ada", details |-> "rice", amount |-> Num(500),
     type |-> "loan", owner |-> Undefined] }

SeqsUpTo(S, n) == UNION { [1..k -> S] : k \in 0..n }

(***************************************************************************)
(* HTTP signalling of the exceptions (Nest exception layer)                *)
(***************************************************************************)
Signal(exc) ==
  CASE exc = "none" -> "ok"
    [] exc = "BadRequestException" -> "client_error"
    [] exc = "NotFoundException" -> "not_found"
    [] OTHER -> "server_fault"

(***************************************************************************)
(* Response composer                                                       *)
(***************************************************************************)
\* a switch over the language with an English default arm
Msg(tmpl, lang, data) == [tmpl |-> tmpl, lang |-> lang, data |-> data]
SwitchLang(lang) == IF lang \in {"yo", "ig", "ha"} THEN lang ELSE "en"

\* mutation: a table lookup without the default arm
generateErrorMessageNoDefault(lang) ==
  Msg(IF lang \in {"yo", "ig", "ha", "en"} THEN "error" ELSE Undefined, lang, <<>>)

generateErrorMessage(lang) == Msg("error", SwitchLang(lang), <<>>)

\* a lookup in a table keyed by the four languages
TableLookup(tmpl, lang) ==
  IF lang \in {"yo", "ig", "ha", "en"}
    THEN Msg(tmpl, lang, <<>>)
    ELSE Msg(Undefined, lang, <<>>)

generateNoDebtorsMessage(lang) == TableLookup("no_debtors", lang)

\* mutation: the English greeting whatever the language
greetingsEnglishOnly(lang) == Msg("greeting", "en", <<>>)

greetings(lang) == TableLookup("greeting", lang)

NullTextMessage == Msg("could_not_understand", "en", <<>>)
ServerErrorMessage == Msg("server_error", "en", <<>>)
NoAudioMessage == Msg("no_audio", "en", <<>>)
NoMessage == Msg("none", "en", <<>>)

(***************************************************************************)
(* Temporary files                                                         *)
(***************************************************************************)
NoPath == <<"none", 0>>
UploadPath(c) == <<"upload", c>>
OutputPath(t) == <<"output", t>>
Paths == ({"upload"} \X (1..MaxCmds)) \cup ({"output"} \X (0..MaxTime))
Absent == 0

(***************************************************************************)
(* Voice of the synthesis                                                  *)
(***************************************************************************)
\* a 32-bit integer is the pair <<high, low>> of the 16-bit halves of its
\* two's complement
Half == 65536

\* hash = (hash << 5) - hash + code; hash |= 0 : 31 * hash + code, wrapped
HashStep(h, code) ==
  LET low == 31 * h[2] + code
  IN <<(31 * h[1] + (low \div Half)) % Half, low % Half>>

RECURSIVE HashFrom(_, _, _)
HashFrom(userId, i, hash) ==
  IF i > Len(userId) THEN hash
  ELSE HashFrom(userId, i + 1, HashStep(hash, userId[i]))

\* Math.abs of the hash: a number with a sign and a magnitude up to 2^31,
\* the magnitude again in two halves
MathAbs(h) ==
  [neg |-> FALSE,
   m |-> IF h[1] < Half \div 2 THEN h
         ELSE IF h[2] = 0 THEN <<Half - h[1], 0>>
         ELSE <<Half - 1 - h[1], Half - h[2]>>]

\* x % length: NaN when length is not a number or is 0, else the remainder
\* with the sign of x
Remainder(x, length) ==
  IF length.nan \/ length.v = 0 THEN NaN
  ELSE LET r == ((x.m[1] % length.v) * (Half % length.v) + x.m[2]) % length.v
       IN [nan |-> FALSE, v |-> IF x.neg THEN 0 - r ELSE r]

\* what the code reads on the value of voiceMap[lang]: whether it is
\* undefined, its length as a number, and its indexed elements
\* voiceMap[lang]: the pools, and under the names every object literal
\* inherits a function or an object, with the length of that function and
\* no indexed element
voiceMap(lang) ==
  CASE lang = "yo" -> [undefined |-> FALSE, length |-> [nan |-> FALSE, v |-> 4],
          items |-> <<"sade", "segun", "femi", "funmi">>]
    [] lang = "ig" -> [undefined |-> FALSE, length |-> [nan |-> FALSE, v |-> 4],
          items |-> <<"ngozi", "amara", "obinna", "ebuka">>]
    [] lang = "ha" -> [undefined |-> FALSE, length |-> [nan |-> FALSE, v |-> 4],
          items |-> <<"amina", "aliyu", "hasan", "zainab">>]
    [] lang = "en" -> [undefined |-> FALSE, length |-> [nan |-> FALSE, v |-> 5],
          items |-> <<"john", "jude", "lina", "lucy", "henry">>]
    [] lang = "constructor" ->
         [undefined |-> FALSE, length |-> [nan |-> FALSE, v |-> 1], items |-> <<>>]
    [] lang = "toString" ->
         [undefined |-> FALSE, length |-> [nan |-> FALSE, v |-> 0], items |-> <<>>]
    [] lang = "__proto__" ->
         [undefined |-> FALSE, length |-> NaN, items |-> <<>>]
    [] OTHER -> [undefined |-> TRUE, length |-> NaN, items |-> <<>>]

\* voiceMap[lang] || voiceMap.yo
VoicesOf(lang) == IF voiceMap(lang).undefined THEN voiceMap("yo") ELSE voiceMap(lang)

ElementAt(voices, index) ==
  IF index.nan THEN Undefined
  ELSE IF index.v \in 0..(Len(voices.items) - 1) THEN voices.items[index.v + 1]
  ELSE Undefined

\* the code units of an owner id
charCodes(userId) == IF userId = "u1" THEN <<117, 49>> ELSE <<117, 50>>

\* the index computed for an owner id given by its code units
voiceIndex(lang, userId) ==
  Remainder(MathAbs(HashFrom(userId, 1, <<0, 0>>)), VoicesOf(lang).length)

\* mutation: the voice taken in turn from the pool
getVoiceForLanguageInTurn(lang, userId) ==
  ElementAt(VoicesOf(lang), Remainder(MathAbs(<<0, now>>), VoicesOf(lang).length))

getVoiceForLanguage(lang, userId) ==
  ElementAt(VoicesOf(lang), voiceIndex(lang, userId))

(***************************************************************************)
(* Requests                                                                *)
(***************************************************************************)
NoResult ==
  [exc |-> "none", type |-> "none", message |-> NoMessage, audio |-> Null,
   transactions |-> <<>>]

IdleReq ==
  [pc |-> "idle", cmd |-> 0, userId |-> "u1", language |-> "en",
   tempFilePath |-> NoPath, wavFilePath |-> NoPath,
   transcribedText |-> NullTxt, label |-> "none", intent |-> Null,
   parsed |-> <<>>, saved |-> <<>>,
   error |-> "none", errorMessage |-> NoMessage,
   speechText |-> NoMessage, after |-> "none", voice |-> "none",
   result |-> NoResult,
   upUnlinks |-> 0, upAbsentUnlink |-> FALSE,
   wavUnlinks |-> 0, wavAbsentUnlink |-> FALSE,
   failed |-> {}, stages |-> {}]

\* resp is the answer of the operation that ran last, when that was one of
\* the ledger operations of the controller
NoResp ==
  [op |-> "none", exc |-> "none", id |-> 0, user |-> "u1", transactions |-> <<>>,
   date |-> [date |-> 0, time |-> 0], deletedCount |-> 0]

\* probe is the last call of one of the text functions: its argument and
\* what it returned
NoProbe == [fn |-> "none", arg |-> <<>>, out |-> 0]

Init ==
  /\ ledger = <<>>
  /\ nextId = 1
  /\ now = 0
  /\ files = [f \in Paths |-> Absent]
  /\ req = [p \in Procs |-> IdleReq]
  /\ cmds = 0
  /\ ops = 0
  /\ hfApiKey \in BOOLEAN
  /\ resp = NoResp
  /\ probe = NoProbe

Done(p, r, result) == req' = [req EXCEPT ![p] = [r EXCEPT !.pc = "done", !.result = result]]

\* AkawoController.processAudio: the upload is on disk under a fresh name
\* when the handler runs; a request without file is answered 400
Submit(p) ==
  /\ req[p].pc \in {"idle", "done"}
  /\ cmds < MaxCmds
  /\ cmds' = cmds + 1
  /\ \E u \in Users, l \in ReqLangs \cup {Undefined}, file \in BOOLEAN :
       LET r == [IdleReq EXCEPT !.cmd = cmds + 1, !.userId = u,
                                !.language = IF l = Undefined THEN "en" ELSE l]
       IN IF ~file
            THEN /\ Done(p, r, [NoResult EXCEPT !.exc = "BadRequestException",
                                                !.message = NoAudioMessage])
                 /\ UNCHANGED files
            ELSE /\ req' = [req EXCEPT ![p] =
                              [r EXCEPT !.pc = "cred", !.tempFilePath = UploadPath(cmds + 1)]]
                 /\ files' = [files EXCEPT ![UploadPath(cmds + 1)] = cmds + 1]
  /\ UNCHANGED <<ledger, nextId, now, ops, hfApiKey, probe>>
  /\ resp' = NoResp

\* transcribeAudioWithWhisper, before the conversion: the credential check
CheckCredential(p) ==
  /\ req[p].pc = "cred"
  /\ req' = [req EXCEPT ![p] =
       IF hfApiKey
         THEN [@ EXCEPT !.pc = "convert"]
         ELSE [@ EXCEPT !.pc = "catch", !.error = "InternalServerErrorException",
                        !.failed = @ \cup {"credential"}]]
  /\ UNCHANGED <<ledger, nextId, now, files, cmds, ops, hfApiKey, probe>>
  /\ resp' = NoResp

\* mutation: the conversion failure raised as a bad request
ConversionErrorBadRequest == "BadRequestException"

\* convertWebmToWav, on('error'): what the promise is rejected with
ConversionError == "InternalServerErrorException"

\* convertWebmToWav: ffmpeg writes output-<now>.wav; on an ffmpeg error the
\* promise rejects and the output file may or may not have been created
convertWebmToWav(p) ==
  /\ req[p].pc = "convert"
  /\ LET outputPath == OutputPath(now)
         r == req[p]
     IN \/ /\ files' = [files EXCEPT ![outputPath] = r.cmd]
           /\ req' = [req EXCEPT ![p] = [r EXCEPT !.pc = "readwav",
                                                  !.wavFilePath = outputPath,
                                                  !.stages = @ \cup {"convert"}]]
        \/ /\ \E partial \in BOOLEAN :
                files' = IF partial THEN [files EXCEPT ![outputPath] = r.cmd] ELSE files
           /\ req' = [req EXCEPT ![p] = [r EXCEPT !.pc = "catch",
                                                  !.error = ConversionError,
                                                  !.failed = @ \cup {"ffmpeg"}]]
  /\ UNCHANGED <<ledger, nextId, now, cmds, ops, hfApiKey, probe>>
  /\ resp' = NoResp

\* transcribeAudioWithWhisper: fs.readFile of the converted file; an error is
\* caught and turned into null
ReadWav(p) ==
  /\ req[p].pc = "readwav"
  /\ req' = [req EXCEPT ![p] =
       IF files[req[p].wavFilePath] = Absent
         THEN [@ EXCEPT !.pc = "unlinkwav", !.transcribedText = NullTxt,
                        !.failed = @ \cup {"readwav"}]
         ELSE [@ EXCEPT !.pc = "post"]]
  /\ UNCHANGED <<ledger, nextId, now, files, cmds, ops, hfApiKey, probe>>
  /\ resp' = NoResp

\* transcribeAudioWithWhisper: the POST to the transcription backend.  The
\* answer carries a text, an empty or missing text, a blank text (trimmed to
\* the empty string), or the call fails
PostWhisper(p) ==
  /\ req[p].pc = "post"
  /\ \/ \E t \in Texts \cup {Txt(<<>>)} :
          req' = [req EXCEPT ![p] = [@ EXCEPT !.pc = "unlinkwav", !.transcribedText = t,
                                             !.stages = @ \cup {"transcribe"}]]
     \/ req' = [req EXCEPT ![p] = [@ EXCEPT !.pc = "unlinkwav", !.transcribedText = NullTxt,
                                            !.stages = @ \cup {"transcribe"},
                                            !.failed = @ \cup {"empty_text"}]]
     \/ req' = [req EXCEPT ![p] = [@ EXCEPT !.pc = "unlinkwav", !.transcribedText = NullTxt,
                                            !.failed = @ \cup {"whisper"}]]
  /\ UNCHANGED <<ledger, nextId, now, files, cmds, ops, hfApiKey, probe>>
  /\ resp' = NoResp

\* fs.unlink: removes an existing file or fails and leaves it; fails on a
\* missing file.  ok is the outcome the file system chooses
Unlink(path, ok) == IF ok /\ files[path] # Absent THEN [files EXCEPT ![path] = Absent] ELSE files
UnlinkOutcomes(path) == IF files[path] = Absent THEN {FALSE} ELSE BOOLEAN

\* transcribeAudioWithWhisper, finally: unlink of the converted file, a
\* failure is logged
UnlinkWav(p) ==
  /\ req[p].pc = "unlinkwav"
  /\ \E ok \in UnlinkOutcomes(req[p].wavFilePath) :
       /\ files' = Unlink(req[p].wavFilePath, ok)
       /\ req' = [req EXCEPT ![p] =
            [@ EXCEPT !.pc = "unlinkup",
                      !.wavUnlinks = @ + 1,
                      !.wavAbsentUnlink = @ \/ files[req[p].wavFilePath] = Absent,
                      !.failed = IF ok THEN @ ELSE @ \cup {"unlink_wav"}]]
  /\ UNCHANGED <<ledger, nextId, now, cmds, ops, hfApiKey, probe>>
  /\ resp' = NoResp

\* processAudioCommand after the transcription: unlink of the upload, then
\* the test of the transcript
UnlinkUpload(p) ==
  /\ req[p].pc = "unlinkup"
  /\ \E ok \in UnlinkOutcomes(req[p].tempFilePath) :
       /\ files' = Unlink(req[p].tempFilePath, ok)
       /\ LET r == [req[p] EXCEPT !.upUnlinks = @ + 1,
                                  !.upAbsentUnlink = @ \/ files[req[p].tempFilePath] = Absent]
          IN req' = [req EXCEPT ![p] =
               IF ~ok
                 THEN [r EXCEPT !.pc = "catch", !.error = "Error",
                                !.failed = @ \cup {"unlink_upload"}]
               ELSE IF Falsy(r.transcribedText)
                 THEN [r EXCEPT !.pc = "catch", !.error = "BadRequestException",
                                !.errorMessage = NullTextMessage]
                 ELSE [r EXCEPT !.pc = "classify"]]
  /\ UNCHANGED <<ledger, nextId, now, cmds, ops, hfApiKey, probe>>
  /\ resp' = NoResp

\* processAudioCommand, catch: what leaves the pipeline
Rethrow(error) ==
  IF error = "BadRequestException" THEN error ELSE "InternalServerErrorException"

\* processAudioCommand, catch: a second unlink of the upload whose failure is
\* logged; a BadRequestException is rethrown, anything else is replaced
Catch(p) ==
  /\ req[p].pc = "catch"
  /\ \E ok \in UnlinkOutcomes(req[p].tempFilePath) :
       /\ files' = Unlink(req[p].tempFilePath, ok)
       /\ LET missing == files[req[p].tempFilePath] = Absent
              r == [req[p] EXCEPT !.upUnlinks = @ + 1,
                                  !.upAbsentUnlink = @ \/ missing,
                                  !.failed = IF ok \/ missing THEN @
                                             ELSE @ \cup {"unlink_catch"}]
          IN Done(p, r, [NoResult EXCEPT
                           !.exc = Rethrow(r.error),
                           !.message = IF r.error = "BadRequestException"
                                         THEN r.errorMessage ELSE ServerErrorMessage])
  /\ UNCHANGED <<ledger, nextId, now, cmds, ops, hfApiKey, probe>>
  /\ resp' = NoResp

(***************************************************************************)
(* Intent classification and extraction                                    *)
(***************************************************************************)
\* mutation: the label is returned without validation
determineIntentWithLLMNoFallback(answer) == answer

\* answer: a label of the backend, or "error" when the call fails
determineIntentWithLLM(answer) ==
  IF answer \in Intents THEN answer ELSE "ask_capabilities"

\* answer of the extraction backend: a JSON array, other JSON, text that
\* does not parse, or a failed call
ExtractorAnswers ==
  [kind : {"array"}, items : SeqsUpTo(Candidates, MaxTx)]
    \cup [kind : {"object", "unparseable", "error"}, items : {<<>>}]

parseIntelligentV4(answer) ==
  IF answer.kind = "array" THEN answer.items ELSE <<>>

(***************************************************************************)
(* The ledger (Transaction collection)                                     *)
(***************************************************************************)
\* mutation: the spread after the owner, { owner: userId, ...txData }
NewTransactionSpreadLast(txData, userId) ==
  [customer |-> txData.customer, details |-> txData.details,
   amount |-> txData.amount, type |-> txData.type,
   owner |-> IF txData.owner = Undefined THEN userId ELSE txData.owner]

\* the document built by handleTransactionLogging: { ...txData, owner: userId }
NewTransaction(txData, userId) ==
  [customer |-> txData.customer, details |-> txData.details,
   amount |-> txData.amount, type |-> txData.type, owner |-> userId]

\* schema validation on save: amount casts to a number, type is in the enum
ValidTransaction(doc) ==
  /\ doc.amount.t \in {"num", "numstr"}
  /\ doc.type \in {"income", "debt"}

\* the stored record; cmd and caller are history fields: the command that
\* created the record and its authenticated caller
Stored(doc, id, t, cmd, caller) ==
  [id |-> id, owner |-> doc.owner, customer |-> doc.customer,
   details |-> doc.details, amount |-> doc.amount.v, type |-> doc.type,
   createdAt |-> t, cmd |-> cmd, caller |-> caller]

\* mutation: the stored order is kept
ReverseNot(s) == s
Reverse(s) == [i \in 1..Len(s) |-> s[Len(s) + 1 - i]]

\* mutation: the find without the owner filter
getTransactionsForUserAnyOwner(userId) ==
  Reverse(ledger)
\* find({ owner }).sort({ createdAt: -1 }): the clock never goes back, so the
\* newest-first order is the reverse of the insertion order
getTransactionsForUser(userId) ==
  Reverse(SelectSeq(ledger, LAMBDA t : t.owner = userId))

(***************************************************************************)
(* Composer, continued                                                     *)
(***************************************************************************)
TypeError == Msg("TypeError", "en", <<>>)
KnownLang(lang) == lang \in {"yo", "ig", "ha", "en"}

generateConfirmationMessage(tx, lang) ==
  Msg("confirm_single", SwitchLang(lang), <<<<tx.customer, tx.type, tx.amount>>>>)

\* terms[lang] is undefined for a language outside the table and the read of
\* its fields raises
generateConfirmationMessageV2(transactions, lang) ==
  IF Len(transactions) = 0 THEN generateErrorMessage(lang)
  ELSE IF Len(transactions) = 1 THEN generateConfirmationMessage(transactions[1], lang)
  ELSE IF ~KnownLang(lang) THEN TypeError
  ELSE Msg("confirm_multi", lang,
           [i \in 1..Len(transactions) |->
              <<transactions[1].customer, transactions[i].type, transactions[i].amount>>])

\* intro[lang] + list: the string "undefined" leads for an unknown language
formatDebtorList(debtors, lang) ==
  Msg("debtor_list", IF KnownLang(lang) THEN lang ELSE Undefined,
      [i \in 1..Len(debtors) |-> <<debtors[i].customer, "debt", debtors[i].amount>>])

\* messages[lang][type] raises for a language outside the table
generateCalculationResponse(amount, type, lang, customerName) ==
  IF ~KnownLang(lang) THEN TypeError
  ELSE Msg("total", lang, <<<<customerName, type, amount>>>>)

\* toLowerCase of the customer names the extractor answers with
Lower(c) == CASE c = "Ada" -> "ada" [] c = "Obi" -> "obi" [] OTHER -> c
Includes(text, word) == \E i \in 1..Len(text.words) : text.words[i] = word

RECURSIVE SumAmounts(_)
SumAmounts(s) == IF s = <<>> THEN 0 ELSE Head(s).amount + SumAmounts(Tail(s))

\* Array.prototype.find: index of the first element with the property, or 0
RECURSIVE FirstMention(_, _, _)
FirstMention(transactions, text, i) ==
  IF i > Len(transactions) THEN 0
  ELSE IF Includes(text, Lower(transactions[i].customer)) THEN i
  ELSE FirstMention(transactions, text, i + 1)

\* mutation: the filter on the type alone
RelevantOfAnyCustomer(t, type, customerName) == t.type = type

\* the filter of handleCalculationQuery: typeMatch && customerMatch
Relevant(t, type, customerName) ==
  t.type = type /\ (customerName = Null \/ t.customer = customerName)

(***************************************************************************)
(* processAudioCommand, after the transcription                            *)
(***************************************************************************)
ToSpeech(r, text, after) == [r EXCEPT !.pc = "speech", !.speechText = text, !.after = after]
Unhandled(p, r) ==
  Done(p, r, [NoResult EXCEPT !.exc = "Error", !.message = ServerErrorMessage])

\* determineIntentWithLLM and the switch on its result; the handlers are
\* returned without await, so what they throw bypasses the catch
Classify(p) ==
  /\ req[p].pc = "classify"
  /\ \E answer \in LLMLabels \cup {"error"} :
       LET intent == determineIntentWithLLM(answer)
           r == [req[p] EXCEPT !.label = answer,
                               !.intent = intent,
                               !.stages = @ \cup {"classify"},
                               !.failed = IF answer = "error" THEN @ \cup {"classifier"} ELSE @]
       IN req' = [req EXCEPT ![p] =
            CASE intent = "log_transaction" -> [r EXCEPT !.pc = "extract"]
              [] intent \in {"query_debtors", "query_total_income", "query_total_debt"} ->
                   [r EXCEPT !.pc = "find"]
              [] OTHER -> ToSpeech(r, greetings(r.language), "info_response")]
  /\ UNCHANGED <<ledger, nextId, now, files, cmds, ops, hfApiKey, probe>>
  /\ resp' = NoResp

\* handleTransactionLogging: the extraction and the test for an empty list
Extract(p) ==
  /\ req[p].pc = "extract"
  /\ \E answer \in ExtractorAnswers :
       LET parsedTransactions == parseIntelligentV4(answer)
           r == [req[p] EXCEPT !.parsed = parsedTransactions,
                               !.stages = @ \cup {"extract"},
                               !.failed = IF answer.kind = "array" THEN @
                                          ELSE @ \cup {"extractor"}]
       IN req' = [req EXCEPT ![p] =
            IF Len(parsedTransactions) = 0
              THEN ToSpeech(r, generateErrorMessage(r.language), "throw")
              ELSE [r EXCEPT !.pc = "save"]]
  /\ UNCHANGED <<ledger, nextId, now, files, cmds, ops, hfApiKey, probe>>
  /\ resp' = NoResp

\* mutation: a failed save takes back the records the command has saved
SaveWithRollback(p) ==
  /\ req[p].pc = "save"
  /\ LET r == req[p]
         txData == r.parsed[Len(r.saved) + 1]
         doc == NewTransaction(txData, r.userId)
         saved == Stored(doc, nextId, now, r.cmd, r.userId)
         r2 == [r EXCEPT !.saved = Append(@, saved), !.stages = @ \cup {"write"}]
         confirmationText == generateConfirmationMessageV2(r2.saved, r.language)
     IN IF ~ValidTransaction(doc)
          THEN /\ Unhandled(p, [r EXCEPT !.failed = @ \cup {"save"}])
               /\ ledger' = SelectSeq(ledger, LAMBDA t : t.cmd # r.cmd)
               /\ UNCHANGED nextId
          ELSE /\ ledger' = Append(ledger, saved)
               /\ nextId' = nextId + 1
               /\ IF Len(r2.saved) < Len(r.parsed)
                    THEN req' = [req EXCEPT ![p] = r2]
                    ELSE IF confirmationText = TypeError
                      THEN Unhandled(p, [r2 EXCEPT !.failed = @ \cup {"compose"}])
                      ELSE req' = [req EXCEPT ![p] =
                                    ToSpeech(r2, confirmationText, "transaction_logged")]
  /\ UNCHANGED <<now, files, cmds, ops, hfApiKey, probe>>
  /\ resp' = NoResp

\* handleTransactionLogging: one turn of the save loop; after the last save
\* the confirmation is composed
Save(p) ==
  /\ req[p].pc = "save"
  /\ LET r == req[p]
         txData == r.parsed[Len(r.saved) + 1]
         doc == NewTransaction(txData, r.userId)
         saved == Stored(doc, nextId, now, r.cmd, r.userId)
         r2 == [r EXCEPT !.saved = Append(@, saved), !.stages = @ \cup {"write"}]
         confirmationText == generateConfirmationMessageV2(r2.saved, r.language)
     IN IF ~ValidTransaction(doc)
          THEN /\ Unhandled(p, [r EXCEPT !.failed = @ \cup {"save"}])
               /\ UNCHANGED <<ledger, nextId>>
          ELSE /\ ledger' = Append(ledger, saved)
               /\ nextId' = nextId + 1
               /\ IF Len(r2.saved) < Len(r.parsed)
                    THEN req' = [req EXCEPT ![p] = r2]
                    ELSE IF confirmationText = TypeError
                      THEN Unhandled(p, [r2 EXCEPT !.failed = @ \cup {"compose"}])
                      ELSE req' = [req EXCEPT ![p] =
                                    ToSpeech(r2, confirmationText, "transaction_logged")]
  /\ UNCHANGED <<now, files, cmds, ops, hfApiKey, probe>>
  /\ resp' = NoResp

\* handleDebtorQuery and handleCalculationQuery: the ledger read and the
\* composition of the answer
Find(p) ==
  /\ req[p].pc = "find"
  /\ LET r == [req[p] EXCEPT !.stages = @ \cup {"read"}]
         transactions == getTransactionsForUser(r.userId)
         debtors == SelectSeq(transactions, LAMBDA t : t.type = "debt")
         type == IF r.intent = "query_total_income" THEN "income" ELSE "debt"
         k == FirstMention(transactions, r.transcribedText, 1)
         customerName == IF k = 0 THEN Null ELSE transactions[k].customer
         relevantTransactions ==
           SelectSeq(transactions, LAMBDA t : Relevant(t, type, customerName))
         totalAmount == SumAmounts(relevantTransactions)
         responseText ==
           IF r.intent = "query_debtors"
             THEN IF Len(debtors) > 0 THEN formatDebtorList(debtors, r.language)
                                        ELSE generateNoDebtorsMessage(r.language)
             ELSE generateCalculationResponse(totalAmount, type, r.language, customerName)
     IN IF responseText = TypeError
          THEN Unhandled(p, [r EXCEPT !.failed = @ \cup {"compose"}])
          ELSE req' = [req EXCEPT ![p] = ToSpeech(r, responseText, "query_response")]
  /\ UNCHANGED <<ledger, nextId, now, files, cmds, ops, hfApiKey, probe>>
  /\ resp' = NoResp

\* generateSpeech and the end of the handler: the synthesis answers with
\* audio, or fails and null is returned
Speech(p) ==
  /\ req[p].pc = "speech"
  /\ \E audio \in {"base64", Null} :
       LET r == [req[p] EXCEPT !.stages = @ \cup {"speech"},
                               !.voice = getVoiceForLanguage(req[p].language,
                                                             charCodes(req[p].userId)),
                               !.failed = IF audio = Null THEN @ \cup {"tts"} ELSE @]
       IN IF r.after = "throw"
            THEN Done(p, r, [NoResult EXCEPT !.exc = "BadRequestException",
                                             !.message = r.speechText, !.audio = audio])
            ELSE Done(p, r, [exc |-> "none", type |-> r.after, message |-> r.speechText,
                             audio |-> audio,
                             transactions |-> IF r.after = "transaction_logged"
                                                THEN r.saved ELSE <<>>])
  /\ UNCHANGED <<ledger, nextId, now, files, cmds, ops, hfApiKey, probe>>
  /\ resp' = NoResp

(***************************************************************************)
(* The other operations of the controller                                  *)
(***************************************************************************)
MaxId == MaxCmds * MaxTx + 1

First(S) == IF S = {} THEN 0 ELSE CHOOSE i \in S : \A j \in S : i <= j

\* mutation: the filter without the owner
FindOneAnyOwner(id, owner) ==
  First({i \in 1..Len(ledger) : ledger[i].id = id})

\* findOneAndDelete({ _id, owner }): index of the matching record, or 0
FindOne(id, owner) ==
  First({i \in 1..Len(ledger) : ledger[i].id = id /\ ledger[i].owner = owner})

Remove(s, k) == [i \in 1..(Len(s) - 1) |-> IF i < k THEN s[i] ELSE s[i + 1]]

deleteSingleTransaction(transactionId, userId) ==
  LET k == FindOne(transactionId, userId)
  IN /\ ledger' = IF k = 0 THEN ledger ELSE Remove(ledger, k)
     /\ resp' = [op |-> "deleteSingleTransaction",
                 exc |-> IF k = 0 THEN "NotFoundException" ELSE "none",
                 id |-> transactionId, user |-> userId, transactions |-> <<>>,
                 date |-> [date |-> 0, time |-> 0], deletedCount |-> 0]

DeleteSingle ==
  /\ ops < MaxOps
  /\ ops' = ops + 1
  /\ \E id \in 1..MaxId, u \in Users : deleteSingleTransaction(id, u)
  /\ UNCHANGED <<nextId, now, files, req, cmds, hfApiKey, probe>>

Tick ==
  /\ now < MaxTime
  /\ now' = now + 1
  /\ UNCHANGED <<ledger, nextId, files, req, cmds, ops, hfApiKey, resp, probe>>

Next ==
  \/ \E p \in Procs : Submit(p)
  \/ \E p \in Procs : CheckCredential(p)
  \/ \E p \in Procs : convertWebmToWav(p)
  \/ \E p \in Procs : ReadWav(p)
  \/ \E p \in Procs : PostWhisper(p)
  \/ \E p \in Procs : UnlinkWav(p)
  \/ \E p \in Procs : UnlinkUpload(p)
  \/ \E p \in Procs : Catch(p)
  \/ \E p \in Procs : Classify(p)
  \/ \E p \in Procs : Extract(p)
  \/ \E p \in Procs : Save(p)
  \/ \E p \in Procs : Find(p)
  \/ \E p \in Procs : Speech(p)
  \/ DeleteSingle
  \/ Tick

Spec == Init /\ [][Next]_vars

TypeOK ==
  /\ nextId \in 1..MaxId
  /\ now \in 0..MaxTime
  /\ cmds \in 0..MaxCmds
  /\ \A p \in Procs : req[p].pc \in
       {"idle", "cred", "convert", "readwav", "post", "unlinkwav", "unlinkup",
        "catch", "classify", "extract", "save", "find", "speech", "done"}

(***************************************************************************)
(* Queries on a ledger that earlier commands have filled                   *)
(***************************************************************************)
MaxRecords == 3     \* records the earlier commands have left in the ledger

\* what the earlier commands have saved
RecordPool ==
  { [owner |-> "u1", customer |-> "Ada", details |-> "rice", amount |-> 1000, type |-> "income"],
    [owner |-> "u1", customer |-> "Ada", details |-> "rice", amount |-> 2000, type |-> "income"],
    [owner |-> "u1", customer |-> "Obi", details |-> "garri", amount |-> 1500, type |-> "income"],
    [owner |-> "u1", customer |-> "Obi", details |-> "garri", amount |-> 700, type |-> "debt"],
    [owner |-> "u2", customer |-> "Ada", details |-> "rice", amount |-> 900, type |-> "debt"],
    [owner |-> "u2", customer |-> "Obi", details |-> "garri", amount |-> 300, type |-> "income"] }

\* the ledger after the saves s, one per clock tick, the last one before now
EarlierLedger(s) ==
  [i \in 1..Len(s) |->
     [id |-> i, owner |-> s[i].owner, customer |-> s[i].customer,
      details |-> s[i].details, amount |-> s[i].amount, type |-> s[i].type,
      createdAt |-> i - Len(s) - 1, cmd |-> 0, caller |-> s[i].owner]]

\* a command of a caller has been transcribed and is about to be classified
InitQuery ==
  /\ \E s \in SeqsUpTo(RecordPool, MaxRecords) :
       /\ ledger = EarlierLedger(s)
       /\ nextId = Len(s) + 1
  /\ now = 0
  /\ files = [f \in Paths |-> Absent]
  /\ \E u \in Users, lang \in ReqLangs, text \in Texts :
       req = [p \in Procs |->
                [IdleReq EXCEPT !.pc = "classify", !.cmd = 1, !.userId = u,
                                !.language = lang,
                                !.tempFilePath = UploadPath(1),
                                !.wavFilePath = OutputPath(0),
                                !.transcribedText = text,
                                !.upUnlinks = 1, !.wavUnlinks = 1,
                                !.stages = {"convert", "transcribe"}]]
  /\ cmds = 1
  /\ ops = 0
  /\ hfApiKey = TRUE
  /\ resp = NoResp
  /\ probe = NoProbe

\* mutation: the listing that reorders the collection itself
GetTransactionsSortingInPlace ==
  /\ \E u \in Users :
       resp' = [op |-> "getTransactions", exc |-> "none", id |-> 0, user |-> u,
                transactions |-> getTransactionsForUser(u),
                date |-> [date |-> 0, time |-> 0], deletedCount |-> 0]
  /\ ledger' = Reverse(ledger)
  /\ UNCHANGED <<nextId, now, files, req, cmds, ops, hfApiKey, probe>>

\* AkawoController.getTransactions
GetTransactions ==
  /\ \E u \in Users :
       resp' = [op |-> "getTransactions", exc |-> "none", id |-> 0, user |-> u,
                transactions |-> getTransactionsForUser(u),
                date |-> [date |-> 0, time |-> 0], deletedCount |-> 0]
  /\ UNCHANGED <<ledger, nextId, now, files, req, cmds, ops, hfApiKey, probe>>

\* the read paths: the command when it is a query, and the listing
NextQuery ==
  \/ \E p \in Procs : Classify(p)
  \/ \E p \in Procs : Find(p)
  \/ \E p \in Procs : Speech(p)
  \/ GetTransactions

SpecQuery == InitQuery /\ [][NextQuery]_vars

(***************************************************************************)
(* Deletion by date, and the operations on a ledger that earlier commands  *)
(* have filled                                                             *)
(***************************************************************************)
DayLen == 2         \* clock ticks in a calendar day

\* a date string: a calendar date, alone or with a time of day; the string
\* may also be no date at all
InvalidDate == [date |-> 0, time |-> 0 - 1]
DateStrings ==
  [date : (0 - 2)..0, time : 0..(DayLen - 1)] \cup {InvalidDate}

\* parseISO: the instant the string denotes (midnight for a date alone)
parseISO(dateString) == dateString.date * DayLen + dateString.time
startOfDay(day) == day - (day % DayLen)
endOfDay(day) == startOfDay(day) + (DayLen - 1)

\* mutation: the end of the day excluded ($lt)
InRangeExclusive(t, startDate, endDate) == startDate <= t /\ t < endDate
\* createdAt: { $gte: startDate, $lte: endDate }
InRange(t, startDate, endDate) == startDate <= t /\ t <= endDate

\* deleteMany({ owner, createdAt }); an invalid date does not cast and the
\* query is rejected
deleteTransactionsByDate(dateString, userId) ==
  IF dateString = InvalidDate
    THEN /\ ledger' = ledger
         /\ resp' = [NoResp EXCEPT !.op = "deleteTransactionsByDate", !.exc = "CastError",
                                   !.user = userId, !.date = dateString]
    ELSE LET day == parseISO(dateString)
             startDate == startOfDay(day)
             endDate == endOfDay(day)
             Matches(t) == t.owner = userId /\ InRange(t.createdAt, startDate, endDate)
         IN /\ ledger' = SelectSeq(ledger, LAMBDA t : ~Matches(t))
            /\ resp' = [NoResp EXCEPT
                          !.op = "deleteTransactionsByDate", !.user = userId,
                          !.date = dateString,
                          !.deletedCount = Len(SelectSeq(ledger, Matches))]

DeleteByDate ==
  /\ ops < MaxOps
  /\ ops' = ops + 1
  /\ \E d \in DateStrings, u \in Users : deleteTransactionsByDate(d, u)
  /\ UNCHANGED <<nextId, now, files, req, cmds, hfApiKey, probe>>

\* what the earlier commands have saved, oldest first
SampleHistories ==
  { <<[owner |-> "u1", customer |-> "Ada", details |-> "rice", amount |-> 1000, type |-> "income"],
      [owner |-> "u2", customer |-> "Ada", details |-> "rice", amount |-> 900, type |-> "debt"],
      [owner |-> "u1", customer |-> "Obi", details |-> "garri", amount |-> 700, type |-> "debt"]>>,
    <<[owner |-> "u1", customer |-> "Ada", details |-> "rice", amount |-> 2000, type |-> "income"],
      [owner |-> "u1", customer |-> "Obi", details |-> "garri", amount |-> 1500, type |-> "income"]>>,
    <<>> }

\* a command of a caller has been transcribed and is about to be classified
InitLedger ==
  /\ \E s \in SampleHistories :
       /\ ledger = EarlierLedger(s)
       /\ nextId = Len(s) + 1
  /\ now = 0
  /\ files = [f \in Paths |-> Absent]
  /\ \E u \in Users, lang \in ReqLangs, text \in Texts :
       req = [p \in Procs |->
                [IdleReq EXCEPT !.pc = "classify", !.cmd = 1, !.userId = u,
                                !.language = lang,
                                !.tempFilePath = UploadPath(1),
                                !.wavFilePath = OutputPath(0),
                                !.transcribedText = text,
                                !.upUnlinks = 1, !.wavUnlinks = 1,
                                !.stages = {"convert", "transcribe"}]]
  /\ cmds = 1
  /\ ops = 0
  /\ hfApiKey = TRUE
  /\ resp = NoResp
  /\ probe = NoProbe

\* the command from the classification on, and the ledger operations of the
\* controller
NextLedger ==
  \/ \E p \in Procs : Classify(p)
  \/ \E p \in Procs : Extract(p)
  \/ \E p \in Procs : Save(p)
  \/ \E p \in Procs : Find(p)
  \/ \E p \in Procs : Speech(p)
  \/ GetTransactions
  \/ DeleteSingle
  \/ DeleteByDate
  \/ Tick

SpecLedger == InitLedger /\ [][NextLedger]_vars

(***************************************************************************)
(* Two commands in flight                                                  *)
(***************************************************************************)
ProcsPair == {"p1", "p2"}

\* the entries that pass the schema validation and have a positive amount
SavableCandidates ==
  {c \in Candidates : ValidTransaction(NewTransaction(c, "u1")) /\ c.amount.v > 0}

\* two commands have been transcribed and classified as log_transaction, the
\* extractor has answered each with entries that can be saved, and each is
\* about to enter its save loop
InitPairSave ==
  /\ ledger = <<>>
  /\ nextId = 1
  /\ now = 0
  /\ files = [f \in Paths |-> Absent]
  /\ \E u \in [ProcsPair -> Users], lang \in ReqLangs,
        parsed \in [ProcsPair -> SeqsUpTo(SavableCandidates, MaxTx) \ {<<>>}] :
       req = [p \in ProcsPair |->
                [IdleReq EXCEPT !.pc = "save", !.cmd = (IF p = "p1" THEN 1 ELSE 2),
                                !.userId = u[p],
                                !.parsed = parsed[p],
                                !.language = lang,
                                !.tempFilePath = UploadPath(IF p = "p1" THEN 1 ELSE 2),
                                !.wavFilePath = OutputPath(0),
                                !.transcribedText = Txt(<<"ada", "paid", "2000">>),
                                !.label = "log_transaction",
                                !.intent = "log_transaction",
                                !.upUnlinks = 1, !.wavUnlinks = 1,
                                !.stages = {"convert", "transcribe", "classify", "extract"}]]
  /\ cmds = 2
  /\ ops = 0
  /\ hfApiKey = TRUE
  /\ resp = NoResp
  /\ probe = NoProbe

NextPairSave ==
  \/ \E p \in ProcsPair : Save(p)
  \/ \E p \in ProcsPair : Speech(p)
  \/ Tick

SpecPairSave == InitPairSave /\ [][NextPairSave]_vars

\* two requests have been accepted, each with its upload on disk under its
\* own name, and each is about to be transcribed
InitPairFiles ==
  /\ ledger = <<>>
  /\ nextId = 1
  /\ now = 0
  /\ files = [f \in Paths \cup {UploadPath(1), UploadPath(2)} |->
                IF f \in {UploadPath(1), UploadPath(2)} THEN f[2] ELSE Absent]
  /\ \E u \in [ProcsPair -> Users], lang \in ReqLangs :
       req = [p \in ProcsPair |->
                [IdleReq EXCEPT !.pc = "cred", !.cmd = (IF p = "p1" THEN 1 ELSE 2),
                                !.userId = u[p],
                                !.language = lang,
                                !.tempFilePath =
                                  UploadPath(IF p = "p1" THEN 1 ELSE 2)]]
  /\ cmds = 2
  /\ ops = 0
  /\ hfApiKey = TRUE
  /\ resp = NoResp
  /\ probe = NoProbe

\* the two pipelines up to the classification
NextPairFiles ==
  \/ \E p \in ProcsPair : CheckCredential(p)
  \/ \E p \in ProcsPair : convertWebmToWav(p)
  \/ \E p \in ProcsPair : ReadWav(p)
  \/ \E p \in ProcsPair : PostWhisper(p)
  \/ \E p \in ProcsPair : UnlinkWav(p)
  \/ \E p \in ProcsPair : UnlinkUpload(p)
  \/ \E p \in ProcsPair : Catch(p)
  \/ Tick

SpecPairFiles == InitPairFiles /\ [][NextPairFiles]_vars

(***************************************************************************)
(* Calls of the voice selection                                            *)
(***************************************************************************)
\* owner ids as code units: the empty id, "u1", "u2", "zz", "abcdef" (hash
\* below 0), an ObjectId in hexadecimal, and "polygenelubricants" (hash -2^31)
OwnerIds ==
  {<<>>, charCodes("u1"), charCodes("u2"),
   <<122, 122>>,
   <<97, 98, 99, 100, 101, 102>>,
   <<53, 48, 55, 102, 49, 102, 55, 55, 98, 99, 102, 56, 54, 99, 100, 55, 57, 57, 52, 51, 57, 48, 49, 49>>,
   <<112, 111, 108, 121, 103, 101, 110, 101, 108, 117, 98, 114, 105, 99, 97, 110, 116, 115>>}

InitVoice ==
  /\ ledger = <<>>
  /\ nextId = 1
  /\ now = 0
  /\ files = [f \in Paths |-> Absent]
  /\ req = [p \in Procs |-> IdleReq]
  /\ cmds = 0
  /\ ops = 0
  /\ hfApiKey = TRUE
  /\ resp = NoResp
  /\ probe \in {[fn |-> "none", arg |-> <<lang, userId>>, out |-> 0] :
                  lang \in {"yo", "ig", "ha", "en", "fr",
                           "constructor", "toString", "__proto__"},
                  userId \in OwnerIds}

\* getVoiceForLanguage on a language and an owner id
ProbeVoice ==
  /\ probe.fn = "none"
  /\ probe' = [fn |-> "getVoiceForLanguage", arg |-> probe.arg,
               out |-> [hash |-> HashFrom(probe.arg[2], 1, <<0, 0>>),
                        index |-> voiceIndex(probe.arg[1], probe.arg[2]),
                        voice |-> getVoiceForLanguage(probe.arg[1], probe.arg[2])]]
  /\ UNCHANGED <<ledger, nextId, now, files, req, cmds, ops, hfApiKey, resp>>

SpecVoice == InitVoice /\ [][ProbeVoice]_vars

(***************************************************************************)
(* Strings of the text functions are sequences of characters; a letter      *)
(* with diacritics is written as the letter followed by its marks           *)
(* (~g grave, ~a acute, ~d dot below), a combining mark alone as the mark   *)
(***************************************************************************)
DigitChars == <<"0", "1", "2", "3", "4", "5", "6", "7", "8", "9">>
IsDigit(c) == \E i \in 1..10 : DigitChars[i] = c
DigitVal(c) == (CHOOSE i \in 1..10 : DigitChars[i] = c) - 1
IsSpace(c) == c \in {" ", "\t", "\n"}

UpperChars == <<"A", "B", "C", "D", "E", "F", "G", "H", "I", "J", "K", "L", "M",
                "N", "O", "P", "Q", "R", "S", "T", "U", "V", "W", "X", "Y", "Z">>
LowerChars == <<"a", "b", "c", "d", "e", "f", "g", "h", "i", "j", "k", "l", "m",
                "n", "o", "p", "q", "r", "s", "t", "u", "v", "w", "x", "y", "z">>
LowerChar(c) ==
  IF \E i \in 1..26 : UpperChars[i] = c
    THEN LowerChars[CHOOSE i \in 1..26 : UpperChars[i] = c]
    ELSE c
toLowerCase(s) == [i \in 1..Len(s) |-> LowerChar(s[i])]

\* normalize(NFD) and the removal of the combining marks, per character
CombiningMarks == {"~g", "~a", "~d"}
StripMarks(c) ==
  CASE c \in {"a~g", "a~a"} -> "a"
    [] c \in {"e~g", "e~a", "e~d", "e~d~g", "e~d~a"} -> "e"
    [] c \in {"i~g", "i~a"} -> "i"
    [] c \in {"o~g", "o~a", "o~d", "o~d~g", "o~d~a"} -> "o"
    [] c \in {"u~g", "u~a", "u~d", "u~d~g", "u~d~a"} -> "u"
    [] OTHER -> c

normalizeTextForParsing(text) ==
  toLowerCase([i \in 1..Len(SelectSeq(text, LAMBDA c : c \notin CombiningMarks)) |->
                 StripMarks(SelectSeq(text, LAMBDA c : c \notin CombiningMarks)[i])])

RemoveCommas(s) == SelectSeq(s, LAMBDA c : c # ",")

\* String.prototype.split(/\s+/)
RECURSIVE SplitFrom(_, _, _, _)
SplitFrom(s, i, cur, acc) ==
  IF i > Len(s) THEN Append(acc, cur)
  ELSE IF IsSpace(s[i])
    THEN IF i > 1 /\ IsSpace(s[i - 1])
           THEN SplitFrom(s, i + 1, cur, acc)
           ELSE SplitFrom(s, i + 1, <<>>, Append(acc, cur))
  ELSE SplitFrom(s, i + 1, Append(cur, s[i]), acc)
SplitSpaces(s) == SplitFrom(s, 1, <<>>, <<>>)

\* parseInt without radix: leading white space, a sign, then the longest
\* run of decimal digits (a 0x prefix does not occur in the inputs); NaN
\* when there is no digit
RECURSIVE SkipSpaces(_, _)
SkipSpaces(s, i) == IF i <= Len(s) /\ IsSpace(s[i]) THEN SkipSpaces(s, i + 1) ELSE i
RECURSIVE DigitsFrom(_, _, _)
DigitsFrom(s, i, acc) ==
  IF i <= Len(s) /\ IsDigit(s[i]) THEN DigitsFrom(s, i + 1, acc * 10 + DigitVal(s[i])) ELSE acc
\* mutation: only the first digit is read
parseIntFirstDigit(s) ==
  LET i == SkipSpaces(s, 1)
      signed == i <= Len(s) /\ s[i] \in {"-", "+"}
      j == IF signed THEN i + 1 ELSE i
  IN IF j > Len(s) \/ ~IsDigit(s[j]) THEN NaN
     ELSE [nan |-> FALSE,
           v |-> IF signed /\ s[i] = "-" THEN 0 - DigitVal(s[j]) ELSE DigitVal(s[j])]
parseInt(s) ==
  LET i == SkipSpaces(s, 1)
      signed == i <= Len(s) /\ s[i] \in {"-", "+"}
      j == IF signed THEN i + 1 ELSE i
  IN IF j > Len(s) \/ ~IsDigit(s[j]) THEN NaN
     ELSE [nan |-> FALSE,
           v |-> IF signed /\ s[i] = "-" THEN 0 - DigitsFrom(s, j, 0) ELSE DigitsFrom(s, j, 0)]

(***************************************************************************)
(* Numeral normalizer (convertTextToNumber)                                *)
(***************************************************************************)
NumberWords ==
  {<<"k", "a", "n">>,
   <<"m", "e", "j", "i">>,
   <<"m", "e", "t", "a">>,
   <<"m", "e", "w", "a">>,
   <<"o", "g", "u", "n">>,
   <<"o", "g", "b", "o", "n">>,
   <<"i", "g", "b", "a">>,
   <<"e", "g", "b", "e", "r", "u", "n">>,
   <<"t", "h", "o", "u", "s", "a", "n", "d">>}
\* mutation: no entry is a multiplier
numberMapAllPlain(word) ==
  CASE word = <<"k", "a", "n">> -> [value |-> 1, multiplier |-> FALSE] []
       word = <<"m", "e", "j", "i">> -> [value |-> 2, multiplier |-> FALSE] []
       word = <<"m", "e", "t", "a">> -> [value |-> 3, multiplier |-> FALSE] []
       word = <<"m", "e", "w", "a">> -> [value |-> 10, multiplier |-> FALSE] []
       word = <<"o", "g", "u", "n">> -> [value |-> 20, multiplier |-> FALSE] []
       word = <<"o", "g", "b", "o", "n">> -> [value |-> 30, multiplier |-> FALSE] []
       word = <<"i", "g", "b", "a">> -> [value |-> 200, multiplier |-> FALSE] []
       word = <<"e", "g", "b", "e", "r", "u", "n">> -> [value |-> 1000, multiplier |-> FALSE] []
       word = <<"t", "h", "o", "u", "s", "a", "n", "d">> -> [value |-> 1000, multiplier |-> FALSE]

numberMap(word) ==
  CASE word = <<"k", "a", "n">> -> [value |-> 1, multiplier |-> FALSE] []
       word = <<"m", "e", "j", "i">> -> [value |-> 2, multiplier |-> FALSE] []
       word = <<"m", "e", "t", "a">> -> [value |-> 3, multiplier |-> FALSE] []
       word = <<"m", "e", "w", "a">> -> [value |-> 10, multiplier |-> FALSE] []
       word = <<"o", "g", "u", "n">> -> [value |-> 20, multiplier |-> FALSE] []
       word = <<"o", "g", "b", "o", "n">> -> [value |-> 30, multiplier |-> FALSE] []
       word = <<"i", "g", "b", "a">> -> [value |-> 200, multiplier |-> TRUE] []
       word = <<"e", "g", "b", "e", "r", "u", "n">> -> [value |-> 1000, multiplier |-> TRUE] []
       word = <<"t", "h", "o", "u", "s", "a", "n", "d">> -> [value |-> 1000, multiplier |-> TRUE]

\* the loop over the words: total and currentVal
RECURSIVE NumberLoop(_, _, _, _)
NumberLoop(words, i, total, currentVal) ==
  IF i > Len(words) THEN total + currentVal
  ELSE LET word == words[i] IN
    IF ~parseInt(word).nan
      THEN NumberLoop(words, i + 1, total, currentVal + parseInt(word).v)
    ELSE IF word \in NumberWords
      THEN IF numberMap(word).multiplier
             THEN NumberLoop(words, i + 1, total,
                             IF currentVal = 0 THEN numberMap(word).value
                                               ELSE currentVal * numberMap(word).value)
             ELSE NumberLoop(words, i + 1, total, currentVal + numberMap(word).value)
    ELSE IF word = <<"o">> \/ word = <<"l", "e">>
      THEN NumberLoop(words, i + 1, total + currentVal, 0)
    ELSE NumberLoop(words, i + 1, total, currentVal)

convertTextToNumber(text) ==
  LET words == SplitSpaces(RemoveCommas(toLowerCase(text)))
      total == NumberLoop(words, 1, 0, 0)
      rest == parseInt(RemoveCommas(text))
  IN IF total > 0 THEN total
     ELSE IF rest.nan \/ rest.v = 0 THEN 0 ELSE rest.v

(***************************************************************************)
(* Lexical classifier (determineIntent)                                    *)
(***************************************************************************)
\* String.prototype.includes
StrIncludes(text, kw) ==
  \E i \in 0..(Len(text) - Len(kw)) : SubSeq(text, i + 1, i + Len(kw)) = kw

incomeQueryKeywords ==
  {<<"t", "o", "t", "a", "l", " ", "i", "n", "c", "o", "m", "e">>,
   <<"p", "a~g", "a~a", "p", "a~g", "a~a", " ", "o", "w", "o~a", " ", "t", "o~a", " ", "w", "o~d", "l", "e~a">>,
   <<"e", "g", "o", " ", "o", "l", "e", " ", "m", " ", "n", "w", "e", "t", "a", "r", "a">>,
   <<"k", "u", "d", "i", "n", " ", "s", "h", "i", "g", "a", " ", "g", "a", "b", "a", " ", "d", "a", "y", "a">>}
debtQueryKeywords ==
  {<<"t", "o", "t", "a", "l", " ", "d", "e", "b", "t">>,
   <<"p", "a~g", "a~a", "p", "a~g", "a~a", " ", "g", "b", "e~g", "s", "e~g">>,
   <<"u~d", "g", "w", "o~d", " ", "o", "l", "e", " ", "k", "a", " ", "a", " ", "j", "i", " ", "m">>,
   <<"b", "a", "s", "h", "i", "n", " ", "g", "a", "b", "a", " ", "d", "a", "y", "a">>}
debtorListKeywords ==
  {<<"t", "a", "n", "i">>,
   <<"w", "h", "o">>,
   <<"l", "i", "s", "t">>,
   <<"s", "h", "o", "w", " ", "m", "e">>,
   <<"a", "w", "o", "n", " ", "t", "o", " ", "j", "e">>,
   <<"n", "d", "i", " ", "j", "i">>,
   <<"s", "u", " ", "w", "a", "n", "e", "n", "e">>}
transactionKeywords ==
  {<<"g", "b", "a">>,
   <<"j", "i">>,
   <<"o", "w", "e", "s">>,
   <<"s", "a", "n">>,
   <<"s", "a", "n", "w", "o">>,
   <<"k", "w", "u", "r", "u">>,
   <<"p", "a", "i", "d">>,
   <<"c", "o", "l", "l", "e", "c", "t", "e", "d">>,
   <<"s", "o", "l", "d">>,
   <<"t", "a">>,
   <<"k", "u">>,
   <<"r", "e", "m", "a", "i", "n", "i", "n", "g">>,
   <<"b", "i", "y", "a">>,
   <<"k", "a", "r", "b", "i">>}

\* keywords.some((kw) => lowerText.includes(kw))
Some(keywords, lowerText) == \E kw \in keywords : StrIncludes(lowerText, kw)

\* mutation: the debtor-list keywords are tested before the aggregate ones
determineIntentListFirst(text) ==
  LET lowerText == normalizeTextForParsing(text)
  IN IF Some(debtorListKeywords, lowerText) THEN "query_debtors"
     ELSE IF Some(incomeQueryKeywords, lowerText) THEN "query_total_income"
     ELSE IF Some(debtQueryKeywords, lowerText) THEN "query_total_debt"
     ELSE IF Some(transactionKeywords, lowerText) THEN "log_transaction"
     ELSE "unknown"
determineIntent(text) ==
  LET lowerText == normalizeTextForParsing(text)
  IN IF Some(incomeQueryKeywords, lowerText) THEN "query_total_income"
     ELSE IF Some(debtQueryKeywords, lowerText) THEN "query_total_debt"
     ELSE IF Some(debtorListKeywords, lowerText) THEN "query_debtors"
     ELSE IF Some(transactionKeywords, lowerText) THEN "log_transaction"
     ELSE "unknown"

(***************************************************************************)
(* Pattern extractor (parseIntelligent)                                    *)
(***************************************************************************)
IsWordChar(c) ==
  \/ IsDigit(c)
  \/ c = "_"
  \/ \E i \in 1..26 : LowerChars[i] = c \/ UpperChars[i] = c

\* the word w stands at position i of t (patterns carry the i flag)
WordAt(t, i, w) ==
  /\ i >= 1
  /\ i + Len(w) - 1 <= Len(t)
  /\ toLowerCase(SubSeq(t, i, i + Len(w) - 1)) = w
SpaceAt(t, i) == i >= 1 /\ i <= Len(t) /\ IsSpace(t[i])

RECURSIVE TrimLeft(_)
TrimLeft(s) == IF s # <<>> /\ IsSpace(Head(s)) THEN TrimLeft(Tail(s)) ELSE s
RECURSIVE TrimRight(_)
TrimRight(s) ==
  IF s # <<>> /\ IsSpace(s[Len(s)]) THEN TrimRight(SubSeq(s, 1, Len(s) - 1)) ELSE s
Trim(s) == TrimRight(TrimLeft(s))

capitalize(s) ==
  IF s = <<>> THEN s
  ELSE <<IF \E i \in 1..26 : LowerChars[i] = s[1]
           THEN UpperChars[CHOOSE i \in 1..26 : LowerChars[i] = s[1]]
           ELSE s[1]>> \o Tail(s)

Min(S) == CHOOSE x \in S : \A y \in S : x <= y

\* /(?:fun|to)\s(?<customer>[\w\s]+?)(?:,|$|\sfun|\sto\s)/i : what may follow
\* the customer group, which ends before position e
CustomerEndAt(t, e) ==
  \/ e = Len(t) + 1
  \/ e <= Len(t) /\ t[e] = ","
  \/ SpaceAt(t, e) /\ WordAt(t, e + 1, <<"f", "u", "n">>)
  \/ SpaceAt(t, e) /\ WordAt(t, e + 1, <<"t", "o">>) /\ SpaceAt(t, e + 3)
\* lengths the customer group may have when it starts at position j
CustomerLens(t, j) ==
  {n \in 1..(Len(t) - j + 1) :
     /\ \A k \in j..(j + n - 1) : IsWordChar(t[k]) \/ IsSpace(t[k])
     /\ CustomerEndAt(t, j + n)}
\* starts of the customer group, for the places where fun or to and a space
\* stand and the rest of the pattern can match
CustomerStarts(t) ==
  {j \in 1..Len(t) :
     /\ \E w \in {<<"f", "u", "n">>, <<"t", "o">>} :
          WordAt(t, j - 1 - Len(w), w) /\ SpaceAt(t, j - 1)
     /\ CustomerLens(t, j) # {}}
\* the customer group of the leftmost match, the shortest one (+?);
\* <<>> when the pattern does not match
customerMatch(t) ==
  IF CustomerStarts(t) = {} THEN <<>>
  ELSE LET j == Min(CustomerStarts(t))
       IN SubSeq(t, j, j + Min(CustomerLens(t, j)) - 1)

\* /(?:ta|sold)\s(?<details>.*?)\s?(?:fun|to)/i
DetailsEndAt(t, e) ==
  \E w \in {<<"f", "u", "n">>, <<"t", "o">>} :
    WordAt(t, e, w) \/ (SpaceAt(t, e) /\ WordAt(t, e + 1, w))
DetailsLens(t, j) ==
  {n \in 0..(Len(t) - j + 1) :
     /\ \A k \in j..(j + n - 1) : t[k] # "\n"
     /\ DetailsEndAt(t, j + n)}
DetailsStarts(t) ==
  {j \in 1..Len(t) :
     /\ \E w \in {<<"t", "a">>, <<"s", "o", "l", "d">>} :
          WordAt(t, j - 1 - Len(w), w) /\ SpaceAt(t, j - 1)
     /\ DetailsLens(t, j) # {}}
detailsMatch(t) ==
  IF DetailsStarts(t) = {} THEN <<>>
  ELSE LET j == Min(DetailsStarts(t))
       IN SubSeq(t, j, j + Min(DetailsLens(t, j)) - 1)

\* /(?:san|sanwo|paid)\s(?<amount>[\w\s\d,-]+)/gi and
\* /(?:ku|owes|remaining)\s(?<amount>[\w\s\d,-]+)/gi
incomeWords == {<<"s", "a", "n">>, <<"s", "a", "n", "w", "o">>, <<"p", "a", "i", "d">>}
debtWords == {<<"k", "u">>, <<"o", "w", "e", "s">>,
              <<"r", "e", "m", "a", "i", "n", "i", "n", "g">>}
IsAmountChar(c) == IsWordChar(c) \/ IsSpace(c) \/ c = "," \/ c = "-"
\* the longest run of amount characters from position j (the group is greedy)
RECURSIVE AmountRun(_, _)
AmountRun(t, j) ==
  IF j <= Len(t) /\ IsAmountChar(t[j]) THEN 1 + AmountRun(t, j + 1) ELSE 0
\* starts of the amount group for the matches that begin at lastIndex or later
AmountStarts(t, words, lastIndex) ==
  {j \in 1..Len(t) :
     /\ \E w \in words :
          /\ j - 1 - Len(w) >= lastIndex
          /\ WordAt(t, j - 1 - Len(w), w)
          /\ SpaceAt(t, j - 1)
     /\ AmountRun(t, j) >= 1}
\* the amount groups of the successive exec calls
RECURSIVE AmountGroups(_, _, _)
AmountGroups(t, words, lastIndex) ==
  IF AmountStarts(t, words, lastIndex) = {} THEN <<>>
  ELSE LET j == Min(AmountStarts(t, words, lastIndex))
       IN <<SubSeq(t, j, j + AmountRun(t, j) - 1)>> \o
          AmountGroups(t, words, j + AmountRun(t, j))

Onibara == <<"O", "n", "i", "b", "a", "r", "a">>
Oja == <<"O", "j", "a">>
IsanwoFun == <<"I", "s", "a", "n", "w", "o", " ", "f", "u", "n", " ">>
GbeseFun == <<"G", "b", "e", "s", "e", " ", "f", "u", "n", " ">>

\* the transactions pushed for the amount groups, in order
RECURSIVE Pushed(_, _, _, _, _)
Pushed(groups, customer, details, prefix, type) ==
  IF groups = <<>> THEN <<>>
  ELSE LET amount == convertTextToNumber(Trim(Head(groups)))
       IN (IF amount > 0
             THEN <<[customer |-> capitalize(customer),
                     details |-> prefix \o capitalize(details),
                     amount |-> amount,
                     type |-> type]>>
             ELSE <<>>) \o
          Pushed(Tail(groups), customer, details, prefix, type)

parseIntelligent(text) ==
  LET normalizedText == normalizeTextForParsing(text)
      customer == IF Trim(customerMatch(normalizedText)) # <<>>
                    THEN Trim(customerMatch(normalizedText)) ELSE Onibara
      details == IF Trim(detailsMatch(normalizedText)) # <<>>
                   THEN Trim(detailsMatch(normalizedText)) ELSE Oja
  IN Pushed(AmountGroups(normalizedText, incomeWords, 1), customer, details,
            IsanwoFun, "income") \o
     Pushed(AmountGroups(normalizedText, debtWords, 1), customer, details,
            GbeseFun, "debt")

(***************************************************************************)
(* Calls of the text functions                                             *)
(***************************************************************************)
MaxDigits == 3      \* length of the digit-only strings

DigitStrings == UNION { [1..k -> {DigitChars[i] : i \in 1..10}] : k \in 1..MaxDigits }

\* spoken amounts, as transcribed
NumberPhrases ==
  {<<"e~d", "g", "b", "e~d", "~g", "r", "u~a", "n", " ", "m", "e~a", "j", "i~g">>,
   <<"p", "u", "k", "u", " ", "a", "b", "u~d", "o~d">>,
   <<"d", "u", "b", "u", " ", "b", "i", "y", "u">>,
   <<"e", "g", "b", "e", "r", "u", "n", " ", "m", "e", "j", "i", " ", "o", " ", "l", "e", " ", "i", "g", "b", "a">>,
   <<"m", "e", "j", "i", " ", "t", "h", "o", "u", "s", "a", "n", "d">>,
   <<"t", "w", "o", " ", "t", "h", "o", "u", "s", "a", "n", "d">>,
   <<"-", "5">>,
   <<"5", " ", "-", "1", "0">>,
   <<"-", " ", "5">>,
   <<"2", ",", "0", "0", "0">>,
   <<"p", "a", "i", "d">>,
   <<>>,
   <<"1", "0", "k">>,
   <<" ", "7">>,
   <<"k", "a", "n", " ", "o">>}

MaxTokens == 3      \* tokens in a spoken amount
MaxMultipliers == 2 \* multiplier words among them

\* the tokens a spoken amount is put together from: digit tokens, plain
\* magnitude words, multiplier words and the additive conjunctions
NumberTokens ==
  {[word |-> <<"0">>, kind |-> "digit", value |-> 0],
   [word |-> <<"2">>, kind |-> "digit", value |-> 2],
   [word |-> <<"k", "a", "n">>, kind |-> "plain", value |-> 1],
   [word |-> <<"M", "e", "j", "i">>, kind |-> "plain", value |-> 2],
   [word |-> <<"i", "g", "b", "a">>, kind |-> "multiplier", value |-> 200],
   [word |-> <<"t", "h", "o", "u", "s", "a", "n", "d">>, kind |-> "multiplier", value |-> 1000],
   [word |-> <<"o">>, kind |-> "and", value |-> 0],
   [word |-> <<"l", "e">>, kind |-> "and", value |-> 0]}
RECURSIVE JoinWords(_, _)
JoinWords(seq, i) ==
  IF i = Len(seq) THEN seq[i].word
  ELSE seq[i].word \o <<" ">> \o JoinWords(seq, i + 1)
TokenTexts ==
  {JoinWords(seq, 1) :
     seq \in {t \in UNION { [1..k -> NumberTokens] : k \in 1..MaxTokens } :
                Cardinality({i \in DOMAIN t : t[i].kind = "multiplier"}) <= MaxMultipliers}}

NumberInputs == DigitStrings \cup NumberPhrases \cup TokenTexts

MaxPhrases == 2     \* phrases in a transcript handed to the classifier

\* what a transcript is put together from
Vocabulary ==
  {<<"t", "o", "t", "a", "l", " ", "i", "n", "c", "o", "m", "e">>,
   <<"T", "o", "t", "a", "l", " ", "D", "e", "b", "t">>,
   <<"s", "h", "o", "w", " ", "m", "e">>,
   <<"w", "h", "o">>,
   <<"A", "d", "a", " ", "p", "a", "i", "d", " ", "2", "0", "0", "0">>,
   <<"o", "w", "e", "s">>,
   <<"h", "o", "w", " ", "i", "s", " ", "t", "h", "e", " ", "w", "e", "a", "t", "h", "e", "r">>,
   <<"p", "a~g", "a~a", "p", "a~g", "a~a", " ", "o", "w", "o~a", " ", "t", "o~a", " ", "w", "o~d", "l", "e~a">>,
   <<"m", "y", " ", "d", "e", "b", "t", "o", "r", "s">>,
   <<"b", "a", "s", "h", "i", "n", " ", "g", "a", "b", "a", " ", "d", "a", "y", "a">>,
   <<"h", "e", "l", "l", "o">>,
   <<"k", "u", "d", "i", "n", " ", "s", "h", "i", "g", "a", " ", "g", "a", "b", "a", " ", "d", "a", "y", "a">>}
RECURSIVE PhraseTexts(_)
PhraseTexts(n) ==
  IF n = 1 THEN Vocabulary
  ELSE PhraseTexts(n - 1) \cup
       {a \o <<" ">> \o b : a \in PhraseTexts(n - 1), b \in Vocabulary}
ClassifierTexts == PhraseTexts(MaxPhrases)

\* utterances handed to the pattern extractor
ParserTexts ==
  {<<"A", "d", "a", " ", "p", "a", "i", "d", " ", "2", "0", "0", "0", ",", " ", "o", "w", "e", "s", " ", "3", "0", "0", "0">>,
   <<"s", "o", "l", "d", " ", "r", "i", "c", "e", " ", "t", "o", " ", "A", "d", "a", ",", " ", "p", "a", "i", "d", " ", "2", "0", "0", "0", ",", " ", "o", "w", "e", "s", " ", "3", "0", "0", "0">>,
   <<"A", "d", "a", " ", "p", "a", "i", "d", " ", "2", "0", "0", "0">>,
   <<"o", " ", "t", "a", " ", "g", "a", "r", "r", "i", " ", "f", "u", "n", " ", "O", "b", "i", ",", " ", "o", " ", "s", "a", "n", " ", "5", "0", "0">>,
   <<"s", "o", "l", "d", " ", "y", "a", "m", " ", "t", "o", " ", "O", "b", "i", " ", "o", "w", "e", "s", " ", "7", "0", "0">>,
   <<"A", "d", "a", " ", "o", "w", "e", "s", " ", "-", "5">>,
   <<"h", "e", "l", "l", "o">>,
   <<"O", "b", "i", " ", "s", "a", "n", "w", "o", " ", "0", " ", "r", "e", "m", "a", "i", "n", "i", "n", "g", " ", "4", "0">>}

TextInputs == NumberInputs \cup ClassifierTexts \cup ParserTexts

\* the text one of the functions is about to be called with
InitFn ==
  /\ ledger = <<>>
  /\ nextId = 1
  /\ now = 0
  /\ files = [f \in Paths |-> Absent]
  /\ req = [p \in Procs |-> IdleReq]
  /\ cmds = 0
  /\ ops = 0
  /\ hfApiKey \in BOOLEAN
  /\ resp = NoResp
  /\ probe \in {[fn |-> "none", arg |-> text, out |-> 0] : text \in TextInputs}

\* convertTextToNumber on the text, or on the normalized text as
\* parseIntelligent hands it over
ProbeNumber ==
  /\ probe.fn = "none"
  /\ probe.arg \in NumberInputs
  /\ \E normalized \in BOOLEAN :
       LET arg == IF normalized THEN normalizeTextForParsing(probe.arg) ELSE probe.arg
       IN probe' = [fn |-> "convertTextToNumber", arg |-> arg,
                    out |-> convertTextToNumber(arg)]
  /\ UNCHANGED <<ledger, nextId, now, files, req, cmds, ops, hfApiKey, resp>>

\* determineIntent on the transcript
ProbeIntent ==
  /\ probe.fn = "none"
  /\ probe.arg \in ClassifierTexts
  /\ probe' = [fn |-> "determineIntent", arg |-> probe.arg,
               out |-> determineIntent(probe.arg)]
  /\ UNCHANGED <<ledger, nextId, now, files, req, cmds, ops, hfApiKey, resp>>

\* parseIntelligent on the transcript
ProbeParse ==
  /\ probe.fn = "none"
  /\ probe.arg \in ParserTexts
  /\ probe' = [fn |-> "parseIntelligent", arg |-> probe.arg,
               out |-> parseIntelligent(probe.arg)]
  /\ UNCHANGED <<ledger, nextId, now, files, req, cmds, ops, hfApiKey, resp>>

NextFn ==
  \/ ProbeNumber
  \/ ProbeIntent
  \/ ProbeParse

SpecFn == InitFn /\ [][NextFn]_vars


(***************************************************************************)
(* Properties                                                              *)
(***************************************************************************)
Finished(p) == req[p].pc = "done" /\ req[p].tempFilePath # NoPath
CreatedBy(c) == {i \in 1..Len(ledger) : ledger[i].cmd = c}
Outcome(p) == Signal(req[p].result.exc)

\* C1: every record of the ledger is owned by the authenticated caller of
\* the command that created it, whatever the extracted entry carried
C1_OwnerIsCaller ==
  \A i \in 1..Len(ledger) : ledger[i].owner = ledger[i].caller

\* a saved record whose extracted entry carried another owner
C1_Witness ==
  \E p \in Procs : \E k \in 1..Len(req[p].saved) :
    /\ req[p].parsed[k].owner \notin {Undefined, req[p].userId}
    /\ \E i \in 1..Len(ledger) : ledger[i] = req[p].saved[k]

\* C2: a delete by id that names no record of the caller (a record of
\* another owner, or no record at all) answers NotFound and leaves the
\* ledger as it is
C2_ForeignDeleteIsNotFound ==
  [][ (/\ ops' = ops + 1
       /\ resp'.op = "deleteSingleTransaction"
       /\ ~ \E i \in 1..Len(ledger) :
              ledger[i].id = resp'.id /\ ledger[i].owner = resp'.user)
      => (resp'.exc = "NotFoundException" /\ ledger' = ledger) ]_vars

\* a delete of another owner's record was answered NotFound, record in place
C2_Witness ==
  /\ resp.op = "deleteSingleTransaction"
  /\ resp.exc = "NotFoundException"
  /\ \E i \in 1..Len(ledger) : ledger[i].id = resp.id /\ ledger[i].owner # resp.user

\* C3: every persisted record has a positive amount and type income or
\* debt; invalid entries are dropped and the valid entries of the same
\* answer are saved
ValidCandidate(c) ==
  /\ c.amount.t = "num" /\ c.amount.v > 0
  /\ c.type \in {"income", "debt"}

C3_InvalidDroppedValidSaved ==
  /\ \A i \in 1..Len(ledger) :
       ledger[i].amount > 0 /\ ledger[i].type \in {"income", "debt"}
  /\ \A p \in Procs :
       (req[p].pc = "done" /\ "extract" \in req[p].stages) =>
         \A k \in 1..Len(req[p].parsed) :
           ValidCandidate(req[p].parsed[k]) =>
             \E j \in 1..Len(req[p].saved) :
               /\ req[p].saved[j].customer = req[p].parsed[k].customer
               /\ req[p].saved[j].amount = req[p].parsed[k].amount.v
               /\ req[p].saved[j].type = req[p].parsed[k].type

\* C4: when a command completes, its upload and its converted file are gone
\* and no unlink was attempted on a file already removed (file system
\* refusals of an unlink set aside)
C4_TempFilesReleasedOnce ==
  \A p \in Procs :
    (Finished(p) /\ req[p].failed \cap {"unlink_upload", "unlink_wav", "unlink_catch"} = {}) =>
      /\ files[req[p].tempFilePath] = Absent
      /\ req[p].wavFilePath # NoPath => files[req[p].wavFilePath] = Absent
      /\ ~ req[p].upAbsentUnlink
      /\ ~ req[p].wavAbsentUnlink

\* C5: a log-transaction command with an empty extraction ends as a bad
\* request carrying the error text of its language, and writes nothing
C5_ZeroExtractedIsInputError ==
  \A p \in Procs :
    (/\ req[p].pc = "done"
     /\ req[p].intent = "log_transaction"
     /\ "extract" \in req[p].stages
     /\ req[p].parsed = <<>>) =>
      /\ Outcome(p) = "client_error"
      /\ req[p].result.message.tmpl = "error"
      /\ req[p].result.message.lang =
           (IF KnownLang(req[p].language) THEN req[p].language ELSE "en")
      /\ "write" \notin req[p].stages
      /\ CreatedBy(req[p].cmd) = {}

\* the extraction backend failed and the command ended as a bad request
C5_Witness ==
  \E p \in Procs :
    /\ req[p].pc = "done"
    /\ req[p].intent = "log_transaction"
    /\ "extractor" \in req[p].failed
    /\ req[p].parsed = <<>>
    /\ Outcome(p) = "client_error"

\* C6: a failed or empty transcription gives a null transcript, the command
\* ends as a bad request, and nothing is classified, extracted or written
C6_NullTranscriptIsInputError ==
  \A p \in Procs :
    (req[p].pc = "done" /\ req[p].failed \cap {"whisper", "empty_text"} # {}) =>
      /\ req[p].transcribedText = NullTxt
      /\ Outcome(p) = "client_error"
      /\ req[p].stages \cap {"classify", "extract", "write"} = {}

C10_CleanupFailureOnlyLogged ==
  \A p \in Procs :
    (req[p].pc = "done" /\ "unlink_upload" \in req[p].failed) =>
      IF Falsy(req[p].transcribedText)
        THEN /\ Outcome(p) = "client_error"
             /\ req[p].result.message = NullTextMessage
        ELSE "classify" \in req[p].stages

\* ---- C17: the phrases for two thousand, thousand-word first, give 2000
\* (as transcribed, and as normalizeTextForParsing hands them over)
TwoThousandPhrases ==
  {<<"e~d", "g", "b", "e~d", "~g", "r", "u~a", "n", " ", "m", "e~a", "j", "i~g">>,
   <<"p", "u", "k", "u", " ", "a", "b", "u~d", "o~d">>,
   <<"d", "u", "b", "u", " ", "b", "i", "y", "u">>}
C17_TwoThousand ==
  (probe.fn = "convertTextToNumber" /\
   \E ph \in TwoThousandPhrases : probe.arg \in {ph, normalizeTextForParsing(ph)})
    => probe.out = 2000

\* ---- C18: a digit-only string gives its integer value, leading zeros and
\* "0" included
RECURSIVE Pow10(_)
Pow10(n) == IF n = 0 THEN 1 ELSE 10 * Pow10(n - 1)
RECURSIVE DecimalValue(_)
DecimalValue(s) ==
  IF s = <<>> THEN 0
  ELSE DigitVal(Head(s)) * Pow10(Len(s) - 1) + DecimalValue(Tail(s))
C18_DigitStringValue ==
  (probe.fn = "convertTextToNumber" /\ probe.arg \in DigitStrings)
    => probe.out = DecimalValue(probe.arg)
\* a digit string with a leading zero was converted
C18_Witness ==
  /\ probe.fn = "convertTextToNumber"
  /\ probe.arg = <<"0", "4", "2">>
  /\ probe.out = 42

\* ---- C19: the numeral normalizer returns an integer >= 0 for every phrase
C19_NonNegative ==
  probe.fn = "convertTextToNumber" => probe.out >= 0

\* ---- C12: the lexical classifier returns the intent of the first keyword
\* set, in the order aggregate-income, aggregate-debt, debtor-list,
\* transaction, that the normalized text matches, and unknown when none does
KeywordSets ==
  <<[intent |-> "query_total_income", keywords |-> incomeQueryKeywords],
    [intent |-> "query_total_debt", keywords |-> debtQueryKeywords],
    [intent |-> "query_debtors", keywords |-> debtorListKeywords],
    [intent |-> "log_transaction", keywords |-> transactionKeywords]>>
MatchedSets(text) ==
  {k \in 1..Len(KeywordSets) :
     \E kw \in KeywordSets[k].keywords :
       StrIncludes(normalizeTextForParsing(text), kw)}
C12_FirstMatchingSetWins ==
  probe.fn = "determineIntent" =>
    IF MatchedSets(probe.arg) = {}
      THEN probe.out = "unknown"
      ELSE \E k \in MatchedSets(probe.arg) :
             /\ \A j \in MatchedSets(probe.arg) : k <= j
             /\ probe.out = KeywordSets[k].intent
\* a transcript that matches the aggregate-debt, the debtor-list and the
\* transaction keywords was classified
C12_Witness ==
  /\ probe.fn = "determineIntent"
  /\ MatchedSets(probe.arg) = {2, 3, 4}
  /\ probe.out = "query_total_debt"

\* ---- C11: an utterance that names one customer and states a payment and a
\* remaining balance gives exactly two transactions, an income and a debt,
\* each with its own stated amount, both bound to the named customer
PaidAndOwes == <<"A", "d", "a", " ", "p", "a", "i", "d", " ", "2", "0", "0", "0", ",", " ", "o", "w", "e", "s", " ", "3", "0", "0", "0">>
C11_TwoTransactionsOneCustomer ==
  (probe.fn = "parseIntelligent" /\ probe.arg = PaidAndOwes) =>
    /\ Len(probe.out) = 2
    /\ \E i, j \in 1..Len(probe.out) :
         /\ probe.out[i].type = "income" /\ probe.out[i].amount = 2000
         /\ probe.out[j].type = "debt" /\ probe.out[j].amount = 3000
    /\ \A i \in 1..Len(probe.out) : probe.out[i].customer = <<"A", "d", "a">>

\* ---- C13: the model-based classifier returns a member of the closed intent
\* set for every answer of the backend: a valid label unchanged, the fallback
\* intent for an invalid label or an error; the classification step never
\* ends the command
C13_ClassifierAlwaysSucceeds ==
  [][\A p \in Procs :
       (req[p].pc = "classify" /\ req'[p].pc # "classify") =>
         /\ req'[p].intent \in Intents
         /\ req'[p].label \in Intents => req'[p].intent = req'[p].label
         /\ req'[p].label \notin Intents => req'[p].intent = "ask_capabilities"
         /\ req'[p].pc \in {"extract", "find", "speech"}
         /\ req'[p].result = NoResult]_vars
\* the backend failed, and answered with a label outside the set, and the
\* command went on as an ask_capabilities command
C13_Witness ==
  \E p \in Procs :
    /\ req[p].pc = "speech"
    /\ req[p].label \in {"error", "weather"}
    /\ req[p].intent = "ask_capabilities"

\* ---- C14: for a total-income (total-debt) query whose text names no
\* customer of the caller, the reported total is the sum of the amounts of
\* exactly the caller's income (debt) records; 0 when there is none
RECURSIVE SumUpTo(_, _, _)
SumUpTo(n, owner, type) ==
  IF n = 0 THEN 0
  ELSE (IF ledger[n].owner = owner /\ ledger[n].type = type
          THEN ledger[n].amount ELSE 0) + SumUpTo(n - 1, owner, type)
OwnTotal(owner, type) == SumUpTo(Len(ledger), owner, type)
NamesNoCustomer(p) ==
  \A i \in 1..Len(ledger) :
    ledger[i].owner = req[p].userId =>
      ~Includes(req[p].transcribedText, Lower(ledger[i].customer))
QueriedType(p) == IF req[p].intent = "query_total_income" THEN "income" ELSE "debt"
C14_TotalIsSumOfOwnRecords ==
  [][\A p \in Procs :
       (/\ req[p].pc = "find"
        /\ req[p].intent \in {"query_total_income", "query_total_debt"}
        /\ NamesNoCustomer(p)
        /\ req'[p].pc = "speech") =>
         req'[p].speechText =
           Msg("total", req[p].language,
               <<<<Null, QueriedType(p), OwnTotal(req[p].userId, QueriedType(p))>>>>)]_vars
\* a total of 1000 was reported to a caller who also has a debt record,
\* while another owner has an income record
C14_Witness ==
  \E p \in Procs :
    /\ req[p].pc = "speech"
    /\ req[p].intent = "query_total_income"
    /\ NamesNoCustomer(p)
    /\ req[p].speechText.tmpl = "total"
    /\ req[p].speechText.data = <<<<Null, "income", 1000>>>>
    /\ \E i, j \in 1..Len(ledger) :
         /\ ledger[i].owner = req[p].userId /\ ledger[i].type = "debt"
         /\ ledger[j].owner # req[p].userId /\ ledger[j].type = "income"

\* ---- C15: a debtor query of a caller without debt records ends
\* successfully with the no-debtors message
HasNoDebt(u) ==
  \A i \in 1..Len(ledger) : ~(ledger[i].owner = u /\ ledger[i].type = "debt")
C15_NoDebtorsMessage ==
  \A p \in Procs :
    (/\ req[p].pc = "done"
     /\ req[p].intent = "query_debtors"
     /\ HasNoDebt(req[p].userId)) =>
      /\ Outcome(p) = "ok"
      /\ req[p].result.message.tmpl = "no_debtors"

\* ---- C16: for a language outside en, yo, ig, ha every composed response
\* is the English template text; it is never undefined and composing
\* never raises
C16_EnglishFallback ==
  \A p \in Procs :
    (req[p].pc \in {"speech", "done"} /\ ~KnownLang(req[p].language)) =>
      /\ "compose" \notin req[p].failed
      /\ req[p].speechText # NoMessage =>
           /\ req[p].speechText.tmpl # Undefined
           /\ req[p].speechText.lang = "en"

\* ---- C20: getTransactionsForUser returns exactly the records of the
\* caller, each once, none of another owner, the newest first
C20_OwnRecordsNewestFirst ==
  resp.op = "getTransactions" =>
    /\ \A i \in 1..Len(resp.transactions) : resp.transactions[i].owner = resp.user
    /\ {resp.transactions[i].id : i \in 1..Len(resp.transactions)} =
         {ledger[k].id : k \in {n \in 1..Len(ledger) : ledger[n].owner = resp.user}}
    /\ Len(resp.transactions) =
         Cardinality({n \in 1..Len(ledger) : ledger[n].owner = resp.user})
    /\ \A i, j \in 1..Len(resp.transactions) :
         i < j => resp.transactions[i].createdAt >= resp.transactions[j].createdAt
\* two records of the caller were listed while the ledger holds a record of
\* another owner
C20_Witness ==
  /\ resp.op = "getTransactions"
  /\ Len(resp.transactions) = 2
  /\ resp.transactions[1].createdAt > resp.transactions[2].createdAt
  /\ \E k \in 1..Len(ledger) : ledger[k].owner # resp.user

\* ---- C21: deleteTransactionsByDate removes exactly the caller's records
\* created within the calendar day of the date, leaves every other record as
\* it was, and answers with the number of records removed, 0 and no error
\* when none matches
DayOf(t) == t \div DayLen
OnDayOf(u, dateString) ==
  {i \in 1..Len(ledger) :
     ledger[i].owner = u /\ DayOf(ledger[i].createdAt) = dateString.date}
C21_DeleteByDateExact ==
  [][(ops' # ops /\ resp'.op = "deleteTransactionsByDate" /\ resp'.date # InvalidDate) =>
       /\ resp'.exc = "none"
       /\ resp'.deletedCount = Cardinality(OnDayOf(resp'.user, resp'.date))
       /\ Len(ledger') = Len(ledger) - resp'.deletedCount
       /\ \A i \in 1..Len(ledger) :
            i \notin OnDayOf(resp'.user, resp'.date) =>
              ledger'[i - Cardinality({j \in OnDayOf(resp'.user, resp'.date) : j < i})]
                = ledger[i]]_vars
\* one record was removed; a record of the caller from another day and a
\* record of another owner from the same day are still there
C21_Witness ==
  /\ resp.op = "deleteTransactionsByDate"
  /\ resp.deletedCount = 1
  /\ \E i \in 1..Len(ledger) :
       ledger[i].owner = resp.user /\ DayOf(ledger[i].createdAt) # resp.date.date
  /\ \E i \in 1..Len(ledger) :
       ledger[i].owner # resp.user /\ DayOf(ledger[i].createdAt) = resp.date.date

\* ---- C22: once two concurrent log-transaction commands have both ended
\* successfully, the ledger holds every record of both, each once and each
\* with the owner of its own command
RecordsOf(p) == SelectSeq(ledger, LAMBDA t : t.cmd = req[p].cmd)
Logged(p) ==
  /\ req[p].pc = "done"
  /\ req[p].result.exc = "none"
  /\ req[p].result.type = "transaction_logged"
C22_NoWriteLostOrMisattributed ==
  (\A p \in ProcsPair : Logged(p)) =>
    /\ \A p \in ProcsPair :
         /\ Len(RecordsOf(p)) = Len(req[p].parsed)
         /\ \A k \in 1..Len(RecordsOf(p)) :
              /\ RecordsOf(p)[k].owner = req[p].userId
              /\ RecordsOf(p)[k].customer = req[p].parsed[k].customer
              /\ RecordsOf(p)[k].details = req[p].parsed[k].details
              /\ RecordsOf(p)[k].amount = req[p].parsed[k].amount.v
              /\ RecordsOf(p)[k].type = req[p].parsed[k].type
    /\ Len(ledger) = Len(req["p1"].parsed) + Len(req["p2"].parsed)
    /\ \A i, j \in 1..Len(ledger) : i # j => ledger[i].id # ledger[j].id
\* both commands saved two records each, and their saves alternated
C22_Witness ==
  /\ \A p \in ProcsPair : Logged(p) /\ Len(req[p].parsed) = 2
  /\ Len(ledger) = 4
  /\ ledger[1].cmd # ledger[2].cmd
  /\ ledger[2].cmd # ledger[3].cmd

\* ---- C23: two pipelines in flight never use the same temporary file: the
\* converted-audio path of one is not the path of the other while both are
\* between their conversion and their unlink of it, and the uploads differ
UsesWav(p) == req[p].pc \in {"readwav", "post", "unlinkwav"}
C23_PrivateTempFiles ==
  \A p, q \in ProcsPair :
    p # q =>
      /\ req[p].tempFilePath # req[q].tempFilePath
      /\ (UsesWav(p) /\ UsesWav(q)) => req[p].wavFilePath # req[q].wavFilePath

\* ---- C24: the voice is a function of the language and the owner id: two
\* commands answered with the same language for the same owner were spoken
\* with the same voice, whatever the other command and the clock did between
\* the two calls
Spoken(p) == req[p].pc = "done" /\ "speech" \in req[p].stages
PoolOf(lang) == IF lang \in {"yo", "ig", "ha", "en"} THEN voiceMap(lang).items ELSE voiceMap("yo").items
InPool(lang, out) ==
  /\ ~out.index.nan
  /\ out.index.v \in 0..(Len(PoolOf(lang)) - 1)
  /\ out.voice = PoolOf(lang)[out.index.v + 1]
C30_VoiceInPool ==
  probe.fn = "getVoiceForLanguage" => InPool(probe.arg[1], probe.out)

\* the same for the languages that are not a name inherited by voiceMap
VoiceInPoolOwnNames ==
  (probe.fn = "getVoiceForLanguage" /\ probe.arg[1] \notin {"constructor", "toString", "__proto__"})
    => InPool(probe.arg[1], probe.out)
\* the case of the hash -2^31: its absolute value 2^31 is 3 modulo 5
LeastHashCase ==
  /\ probe.fn = "getVoiceForLanguage" /\ probe.out.hash = <<Half \div 2, 0>>
  /\ probe.arg[1] = "en" /\ probe.out.index.v = 3 /\ probe.out.voice = "lucy"

\* ---- C25: on a text of digit tokens, plain magnitude words, multiplier
\* words and additive conjunctions the normalizer returns the left-to-right
\* fold: a digit token or plain word is added to the accumulator, a
\* multiplier sets the accumulator when it is 0 and multiplies it otherwise,
\* a conjunction flushes the accumulator into the total, and the result is
\* the total plus the last accumulator
TokenWords == {t.word : t \in NumberTokens}
TokenOf(word) == CHOOSE t \in NumberTokens : t.word = word
RECURSIVE FoldTokens(_, _, _, _)
FoldTokens(words, i, total, accumulator) ==
  IF i > Len(words) THEN total + accumulator
  ELSE LET t == TokenOf(words[i]) IN
    CASE t.kind \in {"digit", "plain"} ->
           FoldTokens(words, i + 1, total, accumulator + t.value)
      [] t.kind = "multiplier" ->
           FoldTokens(words, i + 1, total,
                      IF accumulator = 0 THEN t.value ELSE accumulator * t.value)
      [] t.kind = "and" ->
           FoldTokens(words, i + 1, total + accumulator, 0)
OfTokens(text) ==
  /\ text # <<>>
  /\ \A i \in 1..Len(SplitSpaces(text)) : SplitSpaces(text)[i] \in TokenWords
C25_NormalizerFold ==
  (probe.fn = "convertTextToNumber" /\ OfTokens(probe.arg))
    => probe.out = FoldTokens(SplitSpaces(probe.arg), 1, 0, 0)

\* "Meji igba le" is 2 * 200, flushed
C25_Witness ==
  /\ probe.fn = "convertTextToNumber"
  /\ probe.arg = <<"M", "e", "j", "i", " ", "i", "g", "b", "a", " ", "l", "e">>
  /\ probe.out = 400

\* ---- C26: for a total-income (total-debt) query whose text contains,
\* ignoring case, the customer name of one of the caller's records, the
\* answer names such a customer and its total is the sum of the amounts of
\* all the caller's records of the queried type with that customer
RECURSIVE ScopedUpTo(_, _, _, _)
ScopedUpTo(n, owner, type, customer) ==
  IF n = 0 THEN 0
  ELSE (IF ledger[n].owner = owner /\ ledger[n].type = type /\ ledger[n].customer = customer
          THEN ledger[n].amount ELSE 0) + ScopedUpTo(n - 1, owner, type, customer)
\* the names in the text as the ledger writes them
Named(p) ==
  {c \in {"Ada", "Obi"} :
     /\ \E i \in 1..Len(ledger) : ledger[i].owner = req[p].userId /\ ledger[i].customer = c
     /\ \E i \in 1..Len(req[p].transcribedText.words) :
          req[p].transcribedText.words[i] = (IF c = "Ada" THEN "ada" ELSE "obi")}
C26_TotalScopedToCustomer ==
  [][\A p \in Procs :
       (/\ req[p].pc = "find"
        /\ req[p].intent \in {"query_total_income", "query_total_debt"}
        /\ Named(p) # {}
        /\ req'[p].pc = "speech") =>
         \E c \in Named(p) :
           req'[p].speechText =
             Msg("total", req[p].language,
                 <<<<c, QueriedType(p),
                     ScopedUpTo(Len(ledger), req[p].userId, QueriedType(p), c)>>>>)]_vars
\* a total of 3000 from Ada was reported to a caller who also has an income
\* record of Obi
C26_Witness ==
  \E p \in Procs :
    /\ req[p].pc = "speech"
    /\ req[p].intent = "query_total_income"
    /\ req[p].speechText.tmpl = "total"
    /\ req[p].speechText.data = <<<<"Ada", "income", 3000>>>>
    /\ \E i \in 1..Len(ledger) :
         /\ ledger[i].owner = req[p].userId /\ ledger[i].customer = "Obi"
         /\ ledger[i].type = "income"

\* ---- C27: a step of a query or greeting command and a listing leave the
\* ledger as it is; the ledger changes only by one record appended by the
\* save loop of a log-transaction command, or by records removed by one of
\* the two delete operations, and every record that stays keeps all its
\* fields and its place among the others
Ids(s) == {s[i].id : i \in 1..Len(s)}
ReadOnlyIntents ==
  {"query_debtors", "query_total_income", "query_total_debt", "ask_capabilities"}
AppendedBySave ==
  /\ Len(ledger') = Len(ledger) + 1
  /\ SubSeq(ledger', 1, Len(ledger)) = ledger
  /\ \E p \in Procs :
       /\ req[p].pc = "save" /\ req[p].intent = "log_transaction"
       /\ req'[p].saved = Append(req[p].saved, ledger'[Len(ledger')])
RemovedByDelete ==
  /\ ops' = ops + 1
  /\ resp'.op \in {"deleteSingleTransaction", "deleteTransactionsByDate"}
  /\ Len(ledger') < Len(ledger)
  /\ ledger' = SelectSeq(ledger, LAMBDA t : t.id \in Ids(ledger'))
C27_LedgerFrame ==
  [][/\ ledger' # ledger => (AppendedBySave \/ RemovedByDelete)
     /\ \A p \in Procs :
          (req'[p] # req[p] /\ req[p].intent \in ReadOnlyIntents)
            => ledger' = ledger
     /\ (resp'.op = "getTransactions" /\ ops' = ops) => ledger' = ledger]_vars

\* a total was answered and a listing returned on a ledger of three records,
\* none of which changed
C27_Witness ==
  /\ \E p \in Procs :
       /\ req[p].pc = "done"
       /\ req[p].intent \in {"query_total_income", "query_total_debt"}
       /\ req[p].result.type = "query_response"
  /\ resp.op = "getTransactions"
  /\ Len(resp.transactions) > 0
  /\ Len(ledger) = 3
  /\ Ids(ledger) = 1..3
  /\ nextId = 4

\* ---- C28: a log-transaction command with k >= 1 extracted entries, all
\* saved, has added exactly these k records in extraction order, and ends
\* with kind transaction_logged, the k records and a confirmation text,
\* with or without audio (the records are in the ledger as long as no
\* delete operation has run)
AllSaved(p) ==
  /\ req[p].pc = "done"
  /\ req[p].intent = "log_transaction"
  /\ Len(req[p].parsed) >= 1
  /\ Len(req[p].saved) = Len(req[p].parsed)
C28_LoggedAndConfirmed ==
  \A p \in Procs :
    AllSaved(p) =>
      /\ ops = 0 => SelectSeq(ledger, LAMBDA t : t.cmd = req[p].cmd) = req[p].saved
      /\ \A i \in 1..Len(req[p].saved) :
           /\ req[p].saved[i].customer = req[p].parsed[i].customer
           /\ req[p].saved[i].details = req[p].parsed[i].details
           /\ req[p].saved[i].type = req[p].parsed[i].type
      /\ req[p].result.exc = "none"
      /\ req[p].result.type = "transaction_logged"
      /\ req[p].result.transactions = req[p].saved
      /\ req[p].result.message.tmpl \notin {"none", "TypeError", "server_error"}

\* ---- C29: when the save of an entry of a log-transaction command fails,
\* the records saved before it stay in the ledger in extraction order and a
\* listing returns them, the failing entry and those after it are not saved,
\* and the command ends as a failure without records and confirmation
SaveFailed(p) == req[p].pc = "done" /\ "save" \in req[p].failed
Listed(s) == {s[i].id : i \in 1..Len(s)}
C29_NoRollback ==
  /\ \A p \in Procs :
       SaveFailed(p) =>
         /\ Len(req[p].saved) < Len(req[p].parsed)
         /\ ~ValidTransaction(NewTransaction(req[p].parsed[Len(req[p].saved) + 1],
                                             req[p].userId))
         /\ ops = 0 => SelectSeq(ledger, LAMBDA t : t.cmd = req[p].cmd) = req[p].saved
         /\ \A i \in 1..Len(req[p].saved) :
              req[p].saved[i].customer = req[p].parsed[i].customer
         /\ req[p].result.exc = "Error"
         /\ req[p].result.type = "none"
         /\ req[p].result.transactions = <<>>
         /\ req[p].result.message = ServerErrorMessage
         /\ "speech" \notin req[p].stages
  /\ \A p \in Procs :
       (resp.op = "getTransactions" /\ resp.user = req[p].userId /\ ops = 0)
         => \A i \in 1..Len(req[p].saved) : req[p].saved[i].id \in Listed(resp.transactions)

\* the second of two entries failed, and the listing of the owner shows the
\* first
C29_Witness ==
  \E p \in Procs :
    /\ SaveFailed(p)
    /\ Len(req[p].saved) = 1
    /\ Len(req[p].parsed) = 2
    /\ resp.op = "getTransactions"
    /\ resp.user = req[p].userId
    /\ req[p].saved[1].id \in Listed(resp.transactions)
    /\ \E i \in 1..Len(ledger) : ledger[i] = req[p].saved[1]

====
